---- MODULE Spec2Model ----
(***************************************************************************)
(* Model of update_light_pa.py: one poll of the PurpleAir sensors, the     *)
(* robust PM2.5 selection, the humidity correction, the colour banding,    *)
(* the LIFX bulb update and the status snapshot.                           *)
(*                                                                         *)
(* Python values are records [k, n, d]: k is the kind ("none" for None or  *)
(* an absent key, "nan" for float NaN, "str" for a value float() cannot    *)
(* parse, "num" for a number) and n/d is the exact rational value of a     *)
(* number (d > 0).  Floating point arithmetic is modelled exactly.         *)
(* The runs modelled are those of the default path (no --color override)   *)
(* with both API keys set.                                                 *)
(***************************************************************************)
EXTENDS Integers, Sequences, FiniteSets, TLC

VARIABLES
    PURPLEAIR_SENSORS, \* the configured sensor ids (module constant, line 16)
    upstream,          \* the rows the PurpleAir API currently returns
    pc,                \* position of the running process in main()
    now_ts,            \* time.time() read by fetch_purpleair_current_multi
    sensors_status,    \* main's sensors_status list
    meta_resp,         \* what the metadata source answered in this run
    light,             \* main's decision: strategy, used ids, mean, colour
    lifx_calls,        \* colours sent to the bulb in this run
    payload,           \* the status payload built in this run
    ops,               \* the run's steps, in the order they were performed
    prev,              \* the last completed run, kept for comparison
    fargs,             \* arguments of a pure function being applied
    fres,              \* its result
    fpc                \* "in" before the call, "out" after it

vars == << PURPLEAIR_SENSORS, upstream, pc, now_ts, sensors_status, meta_resp,
           light, lifx_calls, payload, ops, prev, fargs, fres, fpc >>

runVars == << PURPLEAIR_SENSORS, upstream, pc, now_ts, sensors_status,
              meta_resp, light, lifx_calls, payload, ops, prev >>

fnVars == << fargs, fres, fpc >>

----------------------------------------------------------------------------
(* Values *)

None == [k |-> "none", n |-> 0, d |-> 1]

NaN == [k |-> "nan", n |-> 0, d |-> 1]

Str == [k |-> "str", n |-> 0, d |-> 1]

Rat(x, y) == [k |-> "num", n |-> x, d |-> y]

Num(x) == Rat(x, 1)

IsNum(x) == x.k = "num"

\* Python comparisons of floats: any comparison with NaN is False.
Lt(x, y) == IsNum(x) /\ IsNum(y) /\ x.n * y.d < y.n * x.d

Le(x, y) == IsNum(x) /\ IsNum(y) /\ x.n * y.d <= y.n * x.d

Gt(x, y) == Lt(y, x)

Ge(x, y) == Le(y, x)

Eq(x, y) == IsNum(x) /\ IsNum(y) /\ x.n * y.d = y.n * x.d

RECURSIVE GCD(_, _)
GCD(x, y) == IF y = 0 THEN x ELSE GCD(y, x % y)

\* The same number in lowest terms, so that equal numbers are equal records
\* (two floats holding the same value compare equal).
Norm(x) ==
    LET g == GCD(IF x.n < 0 THEN -x.n ELSE x.n, x.d) IN
    IF g = 0 THEN x ELSE Rat(x.n \div g, x.d \div g)

Add(x, y) == Norm(Rat(x.n * y.d + y.n * x.d, x.d * y.d))

Sub(x, y) == Norm(Rat(x.n * y.d - y.n * x.d, x.d * y.d))

\* x / y with the sign kept in the numerator; y = 0 leaves d = 0, the
\* model's mark of a ZeroDivisionError.
Div(x, y) ==
    IF y.n < 0 THEN Norm(Rat(-(x.n * y.d), -(x.d * y.n)))
    ELSE Norm(Rat(x.n * y.d, x.d * y.n))

Abs(x) == IF x.n < 0 THEN Rat(-x.n, x.d) ELSE x

Max(x, y) == IF Gt(y, x) THEN y ELSE x

----------------------------------------------------------------------------
(* PurpleAir helper logic *)

MAX_AGE_MINUTES == 30

_is_na(x) == x.k \in {"none", "nan"}

\* get_best_pm with diff >= 50 in place of diff > 50.
C1_Mutant_get_best_pm(a, b, avg) ==
    IF _is_na(a) /\ ~_is_na(b) /\ Le(b, Num(2000)) THEN b
    ELSE IF _is_na(b) /\ ~_is_na(a) /\ Le(a, Num(2000)) THEN a
    ELSE IF ~_is_na(a) /\ Gt(a, Num(2000)) /\ ~_is_na(b) /\ Le(b, Num(2000)) THEN b
    ELSE IF ~_is_na(b) /\ Gt(b, Num(2000)) /\ ~_is_na(a) /\ Le(a, Num(2000)) THEN a
    ELSE IF ~_is_na(a) /\ ~_is_na(b) THEN
        LET diff == Abs(Sub(a, b)) IN
        IF Ge(diff, Num(50)) /\ Le(diff, Num(500)) THEN Max(a, b)
        ELSE IF Gt(diff, Num(500)) THEN None
        ELSE IF Le(diff, Num(50)) /\ ~_is_na(avg) /\ Ge(avg, Num(0)) THEN avg
        ELSE avg
    ELSE avg

get_best_pm(a, b, avg) ==
    IF _is_na(a) /\ ~_is_na(b) /\ Le(b, Num(2000)) THEN b
    ELSE IF _is_na(b) /\ ~_is_na(a) /\ Le(a, Num(2000)) THEN a
    ELSE IF ~_is_na(a) /\ Gt(a, Num(2000)) /\ ~_is_na(b) /\ Le(b, Num(2000)) THEN b
    ELSE IF ~_is_na(b) /\ Gt(b, Num(2000)) /\ ~_is_na(a) /\ Le(a, Num(2000)) THEN a
    ELSE IF ~_is_na(a) /\ ~_is_na(b) THEN
        LET diff == Abs(Sub(a, b)) IN
        IF Gt(diff, Num(50)) /\ Le(diff, Num(500)) THEN Max(a, b)
        ELSE IF Gt(diff, Num(500)) THEN None
        ELSE IF Le(diff, Num(50)) /\ ~_is_na(avg) /\ Ge(avg, Num(0)) THEN avg
        ELSE avg
    ELSE avg

\* rh after "if rh is None: rh = 50.0" and the guarded float(rh).
RhValue(rh) == IF rh.k \in {"none", "str"} THEN Num(50) ELSE rh

\* 1.0 + 0.24 / (100.0 / r - 1.0)
DenomAt(r) ==
    Add(Num(1), Div(Rat(24, 100), Sub(Div(Num(100), r), Num(1))))

\* Denom with the constant of the rh < 30 branch copied into the last branch.
C7_Mutant_Denom(rh) ==
    LET r == RhValue(rh) IN
    IF Lt(r, Num(30)) THEN DenomAt(Num(30))
    ELSE IF Lt(r, Num(70)) THEN DenomAt(r)
    ELSE DenomAt(Num(30))

\* Denom with the two constants swapped.
C8_Mutant_Denom(rh) ==
    LET r == RhValue(rh) IN
    IF Lt(r, Num(30)) THEN DenomAt(Num(70))
    ELSE IF Lt(r, Num(70)) THEN DenomAt(r)
    ELSE DenomAt(Num(30))

\* The divisor rh_correct_pm25 chooses.
Denom(rh) ==
    LET r == RhValue(rh) IN
    IF Lt(r, Num(30)) THEN DenomAt(Num(30))
    ELSE IF Lt(r, Num(70)) THEN DenomAt(r)
    ELSE DenomAt(Num(70))

rh_correct_pm25(pm25_raw, rh) == Div(pm25_raw, Denom(rh))

\* get_pa_color with v >= 20 in place of v > 20.
C5_Mutant_get_pa_color(pm25_corr) ==
    LET v == pm25_corr IN
    IF v.k \in {"none", "str"} THEN "#D3D3D3"
    ELSE IF Gt(v, Num(100)) THEN "#640100"
    ELSE IF Gt(v, Num(90)) THEN "#9a0100"
    ELSE IF Gt(v, Num(80)) THEN "#cc0001"
    ELSE IF Gt(v, Num(70)) THEN "#fe0002"
    ELSE IF Gt(v, Num(60)) THEN "#fd6866"
    ELSE IF Gt(v, Num(50)) THEN "#ff9835"
    ELSE IF Gt(v, Num(40)) THEN "#ffcb00"
    ELSE IF Gt(v, Num(30)) THEN "#fffe03"
    ELSE IF Ge(v, Num(20)) THEN "#016797"
    ELSE IF Gt(v, Num(10)) THEN "#0099cb"
    ELSE IF Gt(v, Num(0)) THEN "#01cbff"
    ELSE "#D3D3D3"

get_pa_color(pm25_corr) ==
    LET v == pm25_corr IN
    IF v.k \in {"none", "str"} THEN "#D3D3D3"
    ELSE IF Gt(v, Num(100)) THEN "#640100"
    ELSE IF Gt(v, Num(90)) THEN "#9a0100"
    ELSE IF Gt(v, Num(80)) THEN "#cc0001"
    ELSE IF Gt(v, Num(70)) THEN "#fe0002"
    ELSE IF Gt(v, Num(60)) THEN "#fd6866"
    ELSE IF Gt(v, Num(50)) THEN "#ff9835"
    ELSE IF Gt(v, Num(40)) THEN "#ffcb00"
    ELSE IF Gt(v, Num(30)) THEN "#fffe03"
    ELSE IF Gt(v, Num(20)) THEN "#016797"
    ELSE IF Gt(v, Num(10)) THEN "#0099cb"
    ELSE IF Gt(v, Num(0)) THEN "#01cbff"
    ELSE "#D3D3D3"

----------------------------------------------------------------------------
(* fetch_purpleair_current_multi: one row of the response *)

\* IsFresh with age_sec < max_age_sec.
C6_Mutant_IsFresh(last_seen, now) ==
    IsNum(last_seen) /\ Lt(Sub(Num(now), last_seen), Num(MAX_AGE_MINUTES * 60))

\* isinstance(last_seen, (int, float)) and age_sec <= max_age_sec
IsFresh(last_seen, now) ==
    IsNum(last_seen) /\ Le(Sub(Num(now), last_seen), Num(MAX_AGE_MINUTES * 60))

\* datetime.fromtimestamp(last_seen, tz=utc).isoformat(): a text that is a
\* function of last_seen alone; None when last_seen is not a number.
IsoOf(last_seen) ==
    IF IsNum(last_seen) THEN [k |-> "iso", n |-> last_seen.n, d |-> last_seen.d]
    ELSE None

\* CorrOf without the is_fresh test.
C4_Mutant_CorrOf(is_fresh, best_pm, rh) ==
    IF best_pm.k # "none" /\ ~_is_na(best_pm)
    THEN rh_correct_pm25(best_pm, rh)
    ELSE None

\* "RH correction only if data is fresh and best_pm is valid"
CorrOf(is_fresh, best_pm, rh) ==
    IF is_fresh /\ best_pm.k # "none" /\ ~_is_na(best_pm)
    THEN rh_correct_pm25(best_pm, rh)
    ELSE None

\* The body of the loop over rows.  The entry's meta field stands for the
\* keys name, latitude, longitude and geometry, which main adds later.
NormalizeRow(row, now) ==
    LET is_fresh == IsFresh(row.last_seen, now)
        best_pm == get_best_pm(row.pm_a, row.pm_b, row.pm_atm)
    IN  [ sensor_index      |-> row.sensor_index,
          last_seen         |-> row.last_seen,
          last_seen_iso_utc |-> IsoOf(row.last_seen),
          humidity          |-> row.humidity,
          pm25_atm          |-> row.pm_atm,
          pm25_atm_a        |-> row.pm_a,
          pm25_atm_b        |-> row.pm_b,
          pm25_best         |-> best_pm,
          pm25_corr         |-> CorrOf(is_fresh, best_pm, row.humidity),
          is_fresh          |-> is_fresh,
          meta              |-> "absent" ]

NormalizeRows(rows, now) ==
    [i \in 1..Len(rows) |-> NormalizeRow(rows[i], now)]

----------------------------------------------------------------------------
(* main: aggregation *)

LIFX_DURATION_SEC == 60

LIFX_DEVICE_ID == "d073d568e6e8"

RECURSIVE SumSeq(_)
SumSeq(s) ==
    IF s = <<>> THEN Num(0)
    ELSE Add(SumSeq(SubSeq(s, 1, Len(s) - 1)), s[Len(s)])

IsUsable(s) == s.is_fresh /\ s.pm25_corr.k # "none"

Usable(status) == SelectSeq(status, IsUsable)

HasIndex(s) == s.sensor_index.k # "none"

\* UsedIndices without the filter on sensor_index.
C10_Mutant_UsedIndices(usable) ==
    [i \in 1..Len(usable) |-> usable[i].sensor_index.n]

\* [int(s["sensor_index"]) for s in usable if s.get("sensor_index") is not None]
UsedIndices(usable) ==
    LET withId == SelectSeq(usable, HasIndex)
    IN  [i \in 1..Len(withId) |-> withId[i].sensor_index.n]

PmVals(usable) == [i \in 1..Len(usable) |-> usable[i].pm25_corr]

\* AvgPm25Corr dividing by the number of configured sensors.
C2_Mutant_AvgPm25Corr(usable) ==
    Div(SumSeq(PmVals(usable)), Num(Len(PURPLEAIR_SENSORS)))

\* sum(pm_vals) / len(pm_vals)
AvgPm25Corr(usable) == Div(SumSeq(PmVals(usable)), Num(Len(usable)))

NoLight ==
    [ strategy |-> "unset", used_sensor_indices |-> <<>>,
      used_pm25_corr |-> None, color_hex |-> "None" ]

\* The light decision of lines 401-439.
Decision(configured, status) ==
    IF configured = <<>> THEN
        [ strategy |-> "no_sensors_configured", used_sensor_indices |-> <<>>,
          used_pm25_corr |-> None, color_hex |-> "None" ]
    ELSE IF Usable(status) = <<>> THEN
        [ strategy |-> "none_available", used_sensor_indices |-> <<>>,
          used_pm25_corr |-> None, color_hex |-> "None" ]
    ELSE
        [ strategy |-> "average_fresh_sensors",
          used_sensor_indices |-> UsedIndices(Usable(status)),
          used_pm25_corr |-> AvgPm25Corr(Usable(status)),
          color_hex |-> get_pa_color(AvgPm25Corr(Usable(status))) ]

build_status_payload(sensors_data, decision, now_utc) ==
    [ generated_at_utc |-> now_utc,
      sensors |-> sensors_data,
      light |-> [ lifx_device_id |-> LIFX_DEVICE_ID,
                  strategy |-> decision.strategy,
                  used_sensor_indices |-> decision.used_sensor_indices,
                  used_pm25_corr |-> decision.used_pm25_corr,
                  color_hex |-> decision.color_hex,
                  duration_sec |-> LIFX_DURATION_SEC ] ]

----------------------------------------------------------------------------
(* The environment of a run *)

\* How many of the configured sensors the model keeps.
MaxSensors == 2

ConfiguredIds == SubSeq(<< 166965, 83971, 91545 >>, 1, MaxSensors)

\* The instants time.time() may return; the later one is one second past
\* the max-age limit of a reading last seen at 3200.
NowValues == {5000, 5001}

\* What a sensor may report: a reading exactly at the age limit at 5000
\* whose corrected value is 10, a newer one whose corrected value is 30,
\* and a newer one whose channels disagree by more than 500.
ReadingCases ==
    { [ last_seen |-> Num(3200), humidity |-> None,
        pm_atm |-> Rat(62, 5), pm_a |-> Rat(62, 5), pm_b |-> Rat(62, 5) ],
      [ last_seen |-> Num(3201), humidity |-> Num(80),
        pm_atm |-> Rat(234, 5), pm_a |-> None, pm_b |-> Rat(234, 5) ],
      [ last_seen |-> Num(3201), humidity |-> Num(50),
        pm_atm |-> Num(300), pm_a |-> Num(10), pm_b |-> Num(600) ] }

RowChoices(id) ==
    { [ sensor_index |-> sid, last_seen |-> c.last_seen,
        humidity |-> c.humidity, pm_atm |-> c.pm_atm,
        pm_a |-> c.pm_a, pm_b |-> c.pm_b ] :
      sid \in {Num(id), None}, c \in ReadingCases }

\* The responses to show_only = ids[1..k]: each sensor is left out or has
\* one row, whose sensor_index may be null.
RECURSIVE Responses(_, _)
Responses(ids, k) ==
    IF k = 0 THEN { <<>> }
    ELSE LET shorter == Responses(ids, k - 1) IN
         shorter \cup
         { Append(r, row) : r \in shorter, row \in RowChoices(ids[k]) }

\* What the metadata source answers: no URL configured, a failed fetch, or
\* a CSV with rows for the given sensor ids.
MetaResponses ==
    { [ status |-> "no_url", ids |-> {} ],
      [ status |-> "error", ids |-> {} ],
      [ status |-> "ok", ids |-> {} ],
      [ status |-> "ok", ids |-> { ConfiguredIds[1] } ] }

NoMeta == [ status |-> "unset", ids |-> {} ]

Op(name, ok) == [ op |-> name, ok |-> ok ]

----------------------------------------------------------------------------
(* load_sensor_metadata and the merge loop of main *)

\* The ids main passes: every sensor_index that is not None.
SensorIdsForMeta(status) ==
    { status[i].sensor_index.n : i \in { j \in 1..Len(status) : HasIndex(status[j]) } }

\* The keys of the returned dict: the CSV's rows whose id was asked for.
load_sensor_metadata(sensor_ids, resp) ==
    IF resp.status = "ok" THEN resp.ids \cap sensor_ids ELSE {}

\* MetaOps with the request sent twice.
C9_Mutant_MetaOps(resp) ==
    IF resp.status = "no_url" THEN << >>
    ELSE << Op("meta_fetch", resp.status = "ok"), Op("meta_fetch", resp.status = "ok") >>

\* The requests load_sensor_metadata makes.
MetaOps(resp) ==
    IF resp.status = "no_url" THEN << >>
    ELSE << Op("meta_fetch", resp.status = "ok") >>

MergeMeta(status, meta_by_id) ==
    [ i \in 1..Len(status) |->
        IF HasIndex(status[i]) /\ status[i].sensor_index.n \in meta_by_id
        THEN [ status[i] EXCEPT !.meta = "csv" ]
        ELSE status[i] ]

----------------------------------------------------------------------------
(* main, step by step *)

Init ==
    /\ PURPLEAIR_SENSORS \in { <<>>, ConfiguredIds }
    /\ upstream \in IF PURPLEAIR_SENSORS = <<>> THEN { <<>> }
                    ELSE Responses(PURPLEAIR_SENSORS, Len(PURPLEAIR_SENSORS))
    /\ pc = "start"
    /\ now_ts = 0
    /\ sensors_status = <<>>
    /\ meta_resp = NoMeta
    /\ light = NoLight
    /\ lifx_calls = <<>>
    /\ payload = <<>>
    /\ ops = <<>>
    /\ prev = <<>>
    /\ fargs = <<>>
    /\ fres = None
    /\ fpc = "idle"

\* FetchSensors with the failed request swallowed: the run goes on.
C3_Mutant_FetchSensors ==
    /\ pc = "start"
    /\ \/ /\ PURPLEAIR_SENSORS = <<>>
          /\ sensors_status' = <<>>
          /\ pc' = "fetched"
          /\ UNCHANGED << now_ts, ops >>
       \/ /\ PURPLEAIR_SENSORS # <<>>
          /\ pc' = "fetched"
          /\ ops' = Append(ops, Op("sensor_fetch", FALSE))
          /\ UNCHANGED << now_ts, sensors_status >>
       \/ /\ PURPLEAIR_SENSORS # <<>>
          /\ \E t \in NowValues :
                /\ now_ts' = t
                /\ sensors_status' = NormalizeRows(upstream, t)
          /\ pc' = "fetched"
          /\ ops' = ops \o << Op("sensor_fetch", TRUE), Op("select_correct", TRUE) >>
    /\ UNCHANGED << PURPLEAIR_SENSORS, upstream, meta_resp, light, lifx_calls,
                    payload, prev, fnVars >>

\* sensors_status = fetch_purpleair_current_multi(PURPLEAIR_SENSORS, ...):
\* no request without sensors; a failed request raises and ends the run.
FetchSensors ==
    /\ pc = "start"
    /\ \/ /\ PURPLEAIR_SENSORS = <<>>
          /\ sensors_status' = <<>>
          /\ pc' = "fetched"
          /\ UNCHANGED << now_ts, ops >>
       \/ /\ PURPLEAIR_SENSORS # <<>>
          /\ pc' = "aborted"
          /\ ops' = Append(ops, Op("sensor_fetch", FALSE))
          /\ UNCHANGED << now_ts, sensors_status >>
       \/ /\ PURPLEAIR_SENSORS # <<>>
          /\ \E t \in NowValues :
                /\ now_ts' = t
                /\ sensors_status' = NormalizeRows(upstream, t)
          /\ pc' = "fetched"
          /\ ops' = ops \o << Op("sensor_fetch", TRUE), Op("select_correct", TRUE) >>
    /\ UNCHANGED << PURPLEAIR_SENSORS, upstream, meta_resp, light, lifx_calls,
                    payload, prev, fnVars >>

\* meta_by_id = load_sensor_metadata(...) and the loop that merges it
LoadMetadata ==
    /\ pc = "fetched"
    /\ \E resp \in MetaResponses :
          /\ meta_resp' = resp
          /\ sensors_status' =
                MergeMeta(sensors_status,
                          load_sensor_metadata(SensorIdsForMeta(sensors_status), resp))
          /\ ops' = ops \o MetaOps(resp)
    /\ pc' = "loaded"
    /\ UNCHANGED << PURPLEAIR_SENSORS, upstream, now_ts, light, lifx_calls,
                    payload, prev, fnVars >>

\* Lines 401-439: the decision, up to the colour.
Decide ==
    /\ pc = "loaded"
    /\ light' = Decision(PURPLEAIR_SENSORS, sensors_status)
    /\ pc' = IF light'.strategy = "average_fresh_sensors" THEN "bulb" ELSE "status"
    /\ ops' = IF PURPLEAIR_SENSORS = <<>> THEN ops
              ELSE Append(ops, Op("aggregate", TRUE))
    /\ UNCHANGED << PURPLEAIR_SENSORS, upstream, now_ts, sensors_status,
                    meta_resp, lifx_calls, payload, prev, fnVars >>

\* set_lifx_color(color): the PUT, and the RuntimeError on a status >= 400
set_lifx_color ==
    /\ pc = "bulb"
    /\ lifx_calls' = Append(lifx_calls,
                            [ color |-> light.color_hex,
                              duration |-> LIFX_DURATION_SEC ])
    /\ \/ /\ pc' = "status"
          /\ ops' = Append(ops, Op("bulb_update", TRUE))
       \/ /\ pc' = "aborted"
          /\ ops' = Append(ops, Op("bulb_update", FALSE))
    /\ UNCHANGED << PURPLEAIR_SENSORS, upstream, now_ts, sensors_status,
                    meta_resp, light, payload, prev, fnVars >>

\* payload = build_status_payload(...); write_status_json(payload)
WriteStatus ==
    /\ pc = "status"
    /\ \E t \in { u \in NowValues : u >= now_ts } :
          payload' = << build_status_payload(sensors_status, light, t) >>
    /\ \E written \in BOOLEAN :
          ops' = Append(ops, Op("status_write", written))
    /\ pc' = "done"
    /\ UNCHANGED << PURPLEAIR_SENSORS, upstream, now_ts, sensors_status,
                    meta_resp, light, lifx_calls, prev, fnVars >>

\* The process ends and the scheduler starts the next one; nothing but the
\* configuration and the upstream readings carries over.
NextRun ==
    /\ pc \in { "done", "aborted" }
    /\ prev' = IF pc = "done"
               THEN << [ payload |-> payload[1], lifx_calls |-> lifx_calls,
                         meta_resp |-> meta_resp, now_ts |-> now_ts ] >>
               ELSE prev
    /\ pc' = "start"
    /\ now_ts' = 0
    /\ sensors_status' = <<>>
    /\ meta_resp' = NoMeta
    /\ light' = NoLight
    /\ lifx_calls' = <<>>
    /\ payload' = <<>>
    /\ ops' = <<>>
    /\ UNCHANGED << PURPLEAIR_SENSORS, upstream, fnVars >>

Next ==
    \/ FetchSensors
    \/ LoadMetadata
    \/ Decide
    \/ set_lifx_color
    \/ WriteStatus
    \/ NextRun

Spec == Init /\ [][Next]_vars

----------------------------------------------------------------------------
(* The pure functions, each called once on every input of a bounded set *)

NoRun ==
    /\ PURPLEAIR_SENSORS = <<>>
    /\ upstream = <<>>
    /\ pc = "idle"
    /\ now_ts = 0
    /\ sensors_status = <<>>
    /\ meta_resp = NoMeta
    /\ light = NoLight
    /\ lifx_calls = <<>>
    /\ payload = <<>>
    /\ ops = <<>>
    /\ prev = <<>>

\* Channel values on both sides of 2000 and with differences on both sides
\* of 50 and 500.
ChannelValues ==
    { None, NaN } \cup
    { Num(x) : x \in { 0, 10, 60, 61, 80, 510, 511, 600, 2000, 2001, 2500 } }

AverageValues == { None, NaN } \cup { Num(x) : x \in { -5, 0, 5, 10, 45, 300 } }

InitSel ==
    /\ NoRun
    /\ fargs \in [ a : ChannelValues, b : ChannelValues, avg : AverageValues ]
    /\ fres = None
    /\ fpc = "in"

CallGetBestPm ==
    /\ fpc = "in"
    /\ fres' = get_best_pm(fargs.a, fargs.b, fargs.avg)
    /\ fpc' = "out"
    /\ UNCHANGED << fargs, runVars >>

NextSel == CallGetBestPm

SpecSel == InitSel /\ [][NextSel]_vars

\* Tenths from -2.0 to 102.0, 10.0001, 150, and the inputs float() rejects
\* or turns into NaN.
ColorInputs ==
    { Rat(x, 10) : x \in -20..1020 } \cup
    { Rat(100001, 10000), Num(150), NaN, None, Str }

InitColor ==
    /\ NoRun
    /\ fargs \in ColorInputs
    /\ fres = "unset"
    /\ fpc = "in"

CallGetPaColor ==
    /\ fpc = "in"
    /\ fres' = get_pa_color(fargs)
    /\ fpc' = "out"
    /\ UNCHANGED << fargs, runVars >>

NextColor == CallGetPaColor

SpecColor == InitColor /\ [][NextColor]_vars

RawValues == { Num(x) : x \in { 0, 1, 10, 35, 100, 250 } }

RhNumbers == { Num(x) : x \in 0..99 }

RhInputs == RhNumbers \cup { Num(-5), Num(100), Num(120), None, Str, NaN }

InitRh ==
    /\ NoRun
    /\ fargs \in [ raw : RawValues, rh : RhInputs ]
    /\ fres = None
    /\ fpc = "in"

\* The call returns the quotient; the divisor it used is kept beside it.
CallRhCorrect ==
    /\ fpc = "in"
    /\ fres' = [ corr |-> rh_correct_pm25(fargs.raw, fargs.rh),
                 denom |-> Denom(fargs.rh) ]
    /\ fpc' = "out"
    /\ UNCHANGED << fargs, runVars >>

NextRh == CallRhCorrect

SpecRh == InitRh /\ [][NextRh]_vars

\* Rows polled at 5000: last_seen absent, non-numeric, one second older
\* than the limit, exactly at it and newer.
RowInputs ==
    [ sensor_index : { Num(166965) },
      last_seen : { None, Str, Num(3199), Num(3200), Num(3201) },
      humidity : { None, Str, NaN, Num(20), Num(50), Num(85) },
      pm_atm : { None, NaN, Num(-1), Num(12) },
      pm_a : { None, NaN, Num(10), Num(600) },
      pm_b : { None, NaN, Num(10), Num(2500) } ]

InitRow ==
    /\ NoRun
    /\ fargs \in [ row : RowInputs, now : { 5000 } ]
    /\ fres = None
    /\ fpc = "in"

CallNormalizeRow ==
    /\ fpc = "in"
    /\ fres' = NormalizeRow(fargs.row, fargs.now)
    /\ fpc' = "out"
    /\ UNCHANGED << fargs, runVars >>

NextRow == CallNormalizeRow

SpecRow == InitRow /\ [][NextRow]_vars

----------------------------------------------------------------------------
(* Properties of the pure functions *)

Present(x) == x.k = "num"

\* The six-rule policy as the specification words it, on plain numbers
\* (channel values and averages of the input sets are integers).
Policy(a, b, avg) ==
    IF ~Present(a) /\ Present(b) /\ b.n <= 2000 THEN b
    ELSE IF ~Present(b) /\ Present(a) /\ a.n <= 2000 THEN a
    ELSE IF Present(a) /\ Present(b) /\ a.n > 2000 /\ b.n <= 2000 THEN b
    ELSE IF Present(a) /\ Present(b) /\ b.n > 2000 /\ a.n <= 2000 THEN a
    ELSE IF Present(a) /\ Present(b) /\ (a.n - b.n > 500 \/ b.n - a.n > 500)
         THEN None
    ELSE IF Present(a) /\ Present(b) /\ (a.n - b.n > 50 \/ b.n - a.n > 50)
         THEN (IF a.n >= b.n THEN a ELSE b)
    ELSE avg

\* C1: for every channel A, channel B and network average of the input
\* sets (missing, NaN or a number), get_best_pm returns what the six-rule
\* policy returns: the plausible channel under rules 1-4, max(A, B) when
\* 50 < |A-B| <= 500, absent when |A-B| > 500, and the network average
\* as-is in every other case.
C1_BestPmFollowsPolicy ==
    fpc = "out" =>
        /\ fres = Policy(fargs.a, fargs.b, fargs.avg)
        /\ (fargs = [a |-> None, b |-> Num(10), avg |-> Num(5)] => fres = Num(10))
        /\ (fargs = [a |-> Num(2500), b |-> Num(10), avg |-> Num(10)] => fres = Num(10))
        /\ (fargs = [a |-> Num(10), b |-> Num(10), avg |-> Num(10)] => fres = Num(10))
        /\ (fargs = [a |-> Num(10), b |-> Num(80), avg |-> Num(45)] => fres = Num(80))
        /\ (fargs = [a |-> Num(10), b |-> Num(600), avg |-> Num(300)] => fres = None)
        /\ (fargs = [a |-> None, b |-> None, avg |-> None] => fres = None)

C1_Witness ==
    /\ fpc = "out"
    /\ fargs = [a |-> Num(10), b |-> Num(60), avg |-> Num(5)]
    /\ fres = Num(5)

Thresholds == << 100, 90, 80, 70, 60, 50, 40, 30, 20, 10, 0 >>

BandColours ==
    << "#640100", "#9a0100", "#cc0001", "#fe0002", "#fd6866", "#ff9835",
       "#ffcb00", "#fffe03", "#016797", "#0099cb", "#01cbff" >>

Palette == { BandColours[i] : i \in 1..Len(BandColours) } \cup { "#D3D3D3" }

\* The indices of the thresholds the value is strictly above.
Above(v) == { i \in 1..Len(Thresholds) : Present(v) /\ v.n > Thresholds[i] * v.d }

\* The colour of the first threshold strictly below the value, else grey.
StepColour(v) ==
    IF Above(v) = {} THEN "#D3D3D3"
    ELSE BandColours[CHOOSE i \in Above(v) : \A j \in Above(v) : i <= j]

\* C5: get_pa_color returns the colour of the first threshold of 100, 90,
\* ..., 10, 0 the value is strictly above, so a value equal to a threshold
\* gets the next lower band; values <= 0, NaN and non-numeric inputs give
\* grey; the result is always one of 12 fixed colours.
C5_ColourIsStepFunction ==
    fpc = "out" =>
        /\ fres = StepColour(fargs)
        /\ fres \in Palette
        /\ Cardinality(Palette) = 12
        /\ (Eq(fargs, Num(10)) => fres = "#01cbff")
        /\ (Eq(fargs, Num(20)) => fres = "#0099cb")
        /\ (Gt(fargs, Num(10)) /\ Lt(fargs, Num(20)) => fres = "#0099cb")
        /\ (Eq(fargs, Num(150)) => fres = "#640100")
        /\ (~Present(fargs) \/ Le(fargs, Num(0)) => fres = "#D3D3D3")

C5_Witness ==
    /\ fpc = "out"
    /\ fargs = Rat(200, 10)
    /\ fres = "#0099cb"

\* rh clamped to [30, 70].
Clamp(r) == IF r < 30 THEN 30 ELSE IF r > 70 THEN 70 ELSE r

\* raw * 100 * (100 - r) / (10000 - 76 * r)
ClosedForm(raw, r) == Norm(Rat(raw * 100 * (100 - r), 10000 - 76 * r))

\* C7: for every raw value >= 0 and humidities rh1 <= rh2 in [0, 100) the
\* corrected value at rh1 is at least the corrected value at rh2; it is
\* constant below 30 and from 70 on, and equals
\* raw * 100 * (100 - r) / (10000 - 76 * r) with r = rh clamped to [30, 70].
C7_CorrectedMonotoneInRh ==
    fpc = "out" /\ fargs.rh \in RhNumbers /\ fargs.raw.n >= 0 =>
        /\ fres.corr = ClosedForm(fargs.raw.n, Clamp(fargs.rh.n))
        /\ \A rh2 \in RhNumbers :
              /\ fargs.rh.n <= rh2.n =>
                    Ge(fres.corr, rh_correct_pm25(fargs.raw, rh2))
              /\ fargs.rh.n < 30 /\ rh2.n < 30 =>
                    fres.corr = rh_correct_pm25(fargs.raw, rh2)
              /\ fargs.rh.n >= 70 /\ rh2.n >= 70 =>
                    fres.corr = rh_correct_pm25(fargs.raw, rh2)

C7_Witness ==
    /\ fpc = "out"
    /\ fargs = [ raw |-> Num(35), rh |-> Num(69) ]
    /\ Gt(fres.corr, rh_correct_pm25(Num(35), Num(70)))
    /\ Lt(fres.corr, rh_correct_pm25(Num(35), Num(30)))

\* |x - target| <= tol
Near(x, target, tol) == Le(Abs(Sub(x, target)), tol)

\* The humidity the divisor is chosen for: 50 when absent or unparsable.
RhUsed(rh) == IF rh.k \in { "none", "str" } THEN 50 ELSE rh.n

\* C8 as stated: the divisor is about 1.0356 for every rh < 30, 1.24 at
\* rh = 50 (also when humidity is absent or unparsable), about 1.056 for
\* every rh >= 70, and never zero.
C8_DenomAsStated ==
    fpc = "out" /\ fargs.rh.k # "nan" =>
        /\ (RhUsed(fargs.rh) < 30 => Near(fres.denom, Rat(10356, 10000), Rat(5, 1000)))
        /\ (RhUsed(fargs.rh) = 50 => fres.denom = Rat(31, 25))
        /\ (RhUsed(fargs.rh) >= 70 => Near(fres.denom, Rat(1056, 1000), Rat(5, 1000)))
        /\ fres.denom.n # 0 /\ fres.denom.d # 0

\* C8 amended: the divisor is 1 + 0.24 / (100/30 - 1) = 772/700, about
\* 1.1029, for every rh < 30; 1.24 at rh = 50 and when humidity is absent
\* or unparsable; 1 + 0.24 / (100/70 - 1) = 1.56 for every rh >= 70; it is
\* never zero.
C8_DenomValues ==
    fpc = "out" /\ fargs.rh.k # "nan" =>
        /\ (RhUsed(fargs.rh) < 30 =>
                /\ Eq(fres.denom, Rat(772, 700))
                /\ Near(fres.denom, Rat(11029, 10000), Rat(5, 100000)))
        /\ (RhUsed(fargs.rh) = 50 => fres.denom = Rat(31, 25))
        /\ (RhUsed(fargs.rh) >= 70 => Eq(fres.denom, Rat(156, 100)))
        /\ fres.denom.n # 0 /\ fres.denom.d # 0

C8_Witness ==
    /\ fpc = "out"
    /\ fargs.rh = Num(20)
    /\ Eq(fres.denom, Rat(772, 700))

\* C4: in every record fetch_purpleair_current_multi produces, pm25_corr
\* is present (and then a number) exactly when is_fresh is true and
\* pm25_best is present and not NaN; is_fresh is true exactly when
\* last_seen is a number at most the max age before the poll instant.
C4_CorrOnlyWhenFreshAndValid ==
    fpc = "out" =>
        /\ fres.pm25_corr.k # "none" <=>
              (fres.is_fresh /\ fres.pm25_best.k \notin { "none", "nan" })
        /\ fres.pm25_corr.k \in { "none", "num" }
        /\ fres.is_fresh <=>
              (Present(fargs.row.last_seen)
                 /\ fargs.now - fargs.row.last_seen.n <= 1800)
        /\ (~Present(fargs.row.last_seen) => fres.last_seen_iso_utc = None)

C4_Witness ==
    /\ fpc = "out"
    /\ fargs.row.last_seen = Num(3200)
    /\ fargs.row.pm_a = Num(10)
    /\ fargs.row.pm_b = Num(10)
    /\ fargs.row.pm_atm = Num(12)
    /\ fargs.row.humidity = Num(50)
    /\ fres.is_fresh
    /\ fres.pm25_corr = Rat(300, 31)

----------------------------------------------------------------------------
(* Properties of a run *)

\* The positions of the usable readings: fresh, with a corrected value.
UsableAt ==
    { i \in 1..Len(sensors_status) :
        sensors_status[i].is_fresh /\ sensors_status[i].pm25_corr.k # "none" }

RECURSIVE SumOver(_)
SumOver(S) ==
    IF S = {} THEN Num(0)
    ELSE LET i == CHOOSE j \in S : TRUE
         IN  Add(sensors_status[i].pm25_corr, SumOver(S \ {i}))

\* The unweighted arithmetic mean of corrected_pm25 over the usable set.
MeanOfUsable == Div(SumOver(UsableAt), Num(Cardinality(UsableAt)))

Decided == pc \in { "bulb", "status", "done" } \/ (pc = "aborted" /\ lifx_calls # <<>>)

BulbStepOver == pc \in { "done", "aborted" } \/ (pc = "status" /\ lifx_calls # <<>>)

\* C2: in every default-path run, with no sensors configured the strategy
\* is no_sensors_configured and with an empty usable set it is
\* none_available, and then no bulb call is issued and used_pm25_corr and
\* color_hex are absent; otherwise exactly one bulb call is issued, with
\* the colour of the unweighted mean of corrected_pm25 over the usable
\* set, and the status built records that mean, that colour and
\* average_fresh_sensors.
C2_DecisionFromUsableSet ==
    /\ ~Decided => lifx_calls = <<>> /\ payload = <<>>
    /\ Decided =>
        /\ IF PURPLEAIR_SENSORS = <<>> \/ UsableAt = {} THEN
              /\ light.strategy =
                    (IF PURPLEAIR_SENSORS = <<>> THEN "no_sensors_configured"
                     ELSE "none_available")
              /\ lifx_calls = <<>>
              /\ light.used_pm25_corr = None
              /\ light.color_hex = "None"
           ELSE
              /\ light.strategy = "average_fresh_sensors"
              /\ light.used_pm25_corr = MeanOfUsable
              /\ light.color_hex = get_pa_color(MeanOfUsable)
              /\ Len(lifx_calls) <= 1
              /\ BulbStepOver =>
                    /\ Len(lifx_calls) = 1
                    /\ lifx_calls[1].color = get_pa_color(MeanOfUsable)
        /\ payload # <<>> =>
              /\ payload[1].light.strategy = light.strategy
              /\ payload[1].light.used_pm25_corr = light.used_pm25_corr
              /\ payload[1].light.color_hex = light.color_hex
        /\ pc = "done" => payload # <<>>

C2_Witness ==
    /\ pc = "done"
    /\ Cardinality(UsableAt) = 2
    /\ payload[1].light.strategy = "average_fresh_sensors"
    /\ payload[1].light.used_pm25_corr = Num(20)
    /\ payload[1].light.color_hex = "#0099cb"
    /\ lifx_calls = << [ color |-> "#0099cb", duration |-> 60 ] >>

Attempted(name) == \E i \in 1..Len(ops) : ops[i].op = name

Failed(name) == \E i \in 1..Len(ops) : ops[i] = Op(name, FALSE)

\* C3: a status write is attempted only after the sensor-data fetch and
\* the bulb update (when there is one) succeeded: a failed sensor-data
\* fetch aborts the run with no bulb call and no status write, a failed
\* bulb update aborts it with no status write, and a run is aborted by
\* nothing else: not by a failed metadata fetch nor by a failed status
\* write.
C3_StatusWriteOnlyAfterSuccess ==
    /\ Attempted("status_write") =>
          ~Failed("sensor_fetch") /\ ~Failed("bulb_update")
    /\ Failed("sensor_fetch") =>
          /\ pc = "aborted"
          /\ lifx_calls = <<>>
          /\ payload = <<>>
          /\ ~Attempted("bulb_update")
          /\ ~Attempted("status_write")
          /\ ~Attempted("meta_fetch")
    /\ Failed("bulb_update") =>
          /\ pc = "aborted"
          /\ payload = <<>>
          /\ ~Attempted("status_write")
    /\ pc = "aborted" =>
          ops[Len(ops)] \in { Op("sensor_fetch", FALSE), Op("bulb_update", FALSE) }
    /\ Failed("status_write") => pc = "done"

C3_Witness ==
    /\ pc = "aborted"
    /\ Failed("meta_fetch")
    /\ Failed("bulb_update")

\* The place of a step in the order the claim states.
StatedRank(o) ==
    CASE o.op = "meta_fetch" -> 1
      [] o.op = "sensor_fetch" -> 2
      [] o.op \in { "select_correct", "aggregate" } -> 3
      [] o.op = "bulb_update" -> 4
      [] o.op = "status_write" -> 5

\* The place of a step in the order of main.
CodeRank(o) ==
    CASE o.op = "sensor_fetch" -> 1
      [] o.op = "select_correct" -> 2
      [] o.op = "meta_fetch" -> 3
      [] o.op = "aggregate" -> 4
      [] o.op = "bulb_update" -> 5
      [] o.op = "status_write" -> 6

\* C9 as stated: the steps of a run happen one after another in the order
\* metadata fetch, sensor-data fetch, pure computation, bulb update,
\* status write, each at most once.
C9_OrderAsStated ==
    \A i, j \in 1..Len(ops) :
        i < j =>
            \/ StatedRank(ops[i]) < StatedRank(ops[j])
            \/ (ops[i].op = "select_correct" /\ ops[j].op = "aggregate")

\* C9 amended: the steps of a run happen one after another in the order
\* sensor-data fetch, per-sensor selection and correction, metadata fetch,
\* aggregation and colour mapping, bulb update, status write; each at most
\* once, none retried, and none after a failed sensor-data fetch or bulb
\* update.
C9_OrderInCode ==
    /\ \A i, j \in 1..Len(ops) : i < j => CodeRank(ops[i]) < CodeRank(ops[j])
    /\ \A i \in 1..Len(ops) :
          (~ops[i].ok /\ ops[i].op \in { "sensor_fetch", "bulb_update" }) => i = Len(ops)

C9_Witness ==
    /\ pc = "done"
    /\ Len(ops) = 6
    /\ ops[1].op = "sensor_fetch"
    /\ ops[3].op = "meta_fetch"

\* The identifiers of the usable readings from position i on that have one.
RECURSIVE IdsFrom(_)
IdsFrom(i) ==
    IF i > Len(sensors_status) THEN <<>>
    ELSE (IF i \in UsableAt /\ sensors_status[i].sensor_index.k = "num"
          THEN << sensors_status[i].sensor_index.n >> ELSE <<>>) \o IdsFrom(i + 1)

\* The usable readings' positions in order.
RECURSIVE UsablePositions(_)
UsablePositions(i) ==
    IF i > Len(sensors_status) THEN <<>>
    ELSE (IF i \in UsableAt THEN << i >> ELSE <<>>) \o UsablePositions(i + 1)

\* C10 as stated: with strategy average_fresh_sensors, used_sensor_indices
\* holds one identifier per averaged reading, in the same order, also when
\* a row's sensor_index is absent.
C10_OneIdPerAveragedReading ==
    light.strategy = "average_fresh_sensors" =>
        /\ Len(light.used_sensor_indices) = Cardinality(UsableAt)
        /\ \A k \in 1..Len(light.used_sensor_indices) :
              /\ k <= Len(UsablePositions(1))
              /\ sensors_status[UsablePositions(1)[k]].sensor_index =
                    Num(light.used_sensor_indices[k])

\* C10 amended: with strategy average_fresh_sensors, used_sensor_indices
\* holds, in order, the identifier of every averaged reading whose
\* sensor_index is present and nothing else; an averaged reading whose
\* sensor_index is absent adds no identifier.
C10_IdsOfAveragedReadingsWithId ==
    light.strategy = "average_fresh_sensors" =>
        /\ light.used_sensor_indices = IdsFrom(1)
        /\ Len(light.used_sensor_indices) <= Cardinality(UsableAt)
        /\ \A k \in 1..Len(light.used_sensor_indices) :
              \E i \in UsableAt :
                  sensors_status[i].sensor_index = Num(light.used_sensor_indices[k])
        /\ payload # <<>> =>
              payload[1].light.used_sensor_indices = light.used_sensor_indices

C10_Witness ==
    /\ pc = "done"
    /\ Cardinality(UsableAt) = 2
    /\ Len(payload[1].light.used_sensor_indices) = 1

\* A payload with its generation time blanked.
Timeless(p) == [ p EXCEPT !.generated_at_utc = 0 ]

ComparableRuns ==
    /\ pc = "done"
    /\ prev # <<>>
    /\ prev[1].meta_resp = meta_resp

\* Every returned reading is on the same side of the max-age limit at both
\* poll instants.
SameFreshness(t1, t2) ==
    \A i \in 1..Len(upstream) :
        Present(upstream[i].last_seen) =>
            ((t1 - upstream[i].last_seen.n <= MAX_AGE_MINUTES * 60)
                <=> (t2 - upstream[i].last_seen.n <= MAX_AGE_MINUTES * 60))

\* C6 as stated: two completed runs that received the same responses, at
\* any two poll instants, build the same status payload but for
\* generated_at_utc and issue the same bulb command.
C6_SameResponsesSameStatus ==
    ComparableRuns =>
        /\ Timeless(prev[1].payload) = Timeless(payload[1])
        /\ prev[1].lifx_calls = lifx_calls

\* C6 amended: two completed runs that received the same responses, at
\* poll instants at which every returned reading is on the same side of
\* the max-age limit, build the same status payload but for
\* generated_at_utc and issue the same bulb command.
C6_SameResponsesSameFreshnessSameStatus ==
    ComparableRuns /\ SameFreshness(prev[1].now_ts, now_ts) =>
        /\ Timeless(prev[1].payload) = Timeless(payload[1])
        /\ prev[1].lifx_calls = lifx_calls

C6_Witness ==
    /\ ComparableRuns
    /\ prev[1].now_ts = 5000
    /\ now_ts = 5001
    /\ prev[1].payload.generated_at_utc # payload[1].generated_at_utc
    /\ SameFreshness(5000, 5001)
    /\ lifx_calls # <<>>

====
